---- MODULE Spec2Model ----
(***************************************************************************)
(* A model of the UniProt gene resolution code of                          *)
(* alphafold_core/data/fetcher.py: the HTTP session with its mounted       *)
(* retry adapter (_setup_session), the query builder, the four-strategy    *)
(* waterfall (search_by_gene_name_robust), the response handling of one    *)
(* strategy (_search_with_strategy) and the batch loop                     *)
(* (search_multiple_genes_robust), with the legacy entry points that hand  *)
(* over to them, and of the retry loop of fetch_sequence in                *)
(* scripts/fetch_protein_sequences.py.                                     *)
(*                                                                         *)
(* Strings that the code transforms are sequences of characters; the       *)
(* service is an adversary that picks the answer of every physical call.  *)
(*                                                                         *)
(* session.get runs through the HTTPAdapter that _setup_session mounts     *)
(* with Retry(total=max_retries, backoff_factor=1, status_forcelist=[429,  *)
(* 500, 502, 503, 504]): the adapter itself re-sends a GET answered by one *)
(* of these statuses, or broken by a connection error or timeout, after a  *)
(* sleep (the Retry-After of the response, else the backoff), and when the *)
(* total is used up session.get raises (RetryError, ConnectionError).  So  *)
(* _search_with_strategy sees an ok response, a status outside the list,   *)
(* or an exception; its own 429 branch (lines 242-246) is modelled, and no *)
(* answer of the service reaches it.                                       *)
(***************************************************************************)
EXTENDS Integers, Sequences, FiniteSets, TLC

\* ------------------------------------------------------------------ bounds
\* longest input gene list
MaxGenes == 2
\* longest "results" array the service returns (below SearchCriteria.max_results)
MaxResults == 2

\* ------------------------------------------------------- program constants
\* config.max_retries, the total of the urllib3 Retry mounted on the session
max_retries == 3
\* a variant of NumStrategies: the last strategy is missing
ThreeStrategies == 4 - 1

\* the number of entries of the strategies list
NumStrategies == 4
\* Retry(backoff_factor=1)
backoff_factor == 1
\* response.headers.get('Retry-After', 60)
DefaultRetryAfter == 60
\* no Retry-After header in the response
NoHeader == -1
\* line 287, "(idx + 1) % 10 == 0": the cadence of the status line
ProgressEvery == 10

\* Python's None, as a value comparable with the result dicts
None == [none |-> TRUE]
WS == " "

\* ------------------------------------------------------------ pure helpers
\* str.strip(): drop leading and trailing whitespace
RECURSIVE LStrip(_)
LStrip(s) == IF s # <<>> /\ Head(s) = WS THEN LStrip(Tail(s)) ELSE s

RECURSIVE RStrip(_)
RStrip(s) ==
    IF s # <<>> /\ s[Len(s)] = WS THEN RStrip(SubSeq(s, 1, Len(s) - 1)) ELSE s

\* a variant of Strip that keeps the trailing whitespace
StripLeftOnly(s) == LStrip(s)

Strip(s) == RStrip(LStrip(s))

\* " AND ".join(parts)
RECURSIVE JoinAnd(_)
JoinAnd(parts) ==
    IF parts = <<>> THEN <<>>
    ELSE IF Len(parts) = 1 THEN Head(parts)
    ELSE Head(parts) \o <<" AND ">> \o JoinAnd(Tail(parts))

\* SearchCriteria(organism_id, reviewed_only, exact_match, max_results)
SearchCriteria(org, rev, exact, size) ==
    [organism_id |-> org, reviewed_only |-> rev, exact_match |-> exact,
     max_results |-> size]

\* a variant of BuildSearchQuery that puts the reviewed clause before the
\* organism clause
QueryReviewedFirst(gene_name, c) ==
    JoinAnd(
        << (IF c.exact_match THEN <<"gene_exact:">> ELSE <<"gene:">>) \o gene_name >>
        \o (IF c.reviewed_only THEN << <<"reviewed:true">> >> ELSE <<>>)
        \o (IF c.organism_id # "" THEN << <<"organism_id:", c.organism_id>> >> ELSE <<>>))

\* _build_search_query
BuildSearchQuery(gene_name, c) ==
    JoinAnd(
        << (IF c.exact_match THEN <<"gene_exact:">> ELSE <<"gene:">>) \o gene_name >>
        \o (IF c.organism_id # "" THEN << <<"organism_id:", c.organism_id>> >> ELSE <<>>)
        \o (IF c.reviewed_only THEN << <<"reviewed:true">> >> ELSE <<>>))

\* a variant of Strategies whose first strategy takes the flags of the base
StrategiesFromBase(c) ==
    << SearchCriteria(c.organism_id, c.reviewed_only, c.exact_match, c.max_results),
       SearchCriteria(c.organism_id, FALSE, TRUE, c.max_results),
       SearchCriteria(c.organism_id, TRUE, FALSE, c.max_results),
       SearchCriteria(c.organism_id, FALSE, FALSE, c.max_results) >>

\* a variant of Strategies that tries the fuzzy reviewed query second
StrategiesFuzzySecond(c) ==
    << SearchCriteria(c.organism_id, TRUE, TRUE, c.max_results),
       SearchCriteria(c.organism_id, TRUE, FALSE, c.max_results),
       SearchCriteria(c.organism_id, FALSE, TRUE, c.max_results),
       SearchCriteria(c.organism_id, FALSE, FALSE, c.max_results) >>

\* the strategies list of search_by_gene_name_robust
Strategies(c) ==
    << SearchCriteria(c.organism_id, TRUE, TRUE, c.max_results),
       SearchCriteria(c.organism_id, FALSE, TRUE, c.max_results),
       SearchCriteria(c.organism_id, TRUE, FALSE, c.max_results),
       SearchCriteria(c.organism_id, FALSE, FALSE, c.max_results) >>

\* ------------------------------------------------------ service responses
ReviewedType == "UniProtKB reviewed (Swiss-Prot)"
UnreviewedType == "UniProtKB unreviewed (TrEMBL)"

\* the raw entries of a "results" array: the accession, the raw "reviewed"
\* key (absent reads as False) and the entryType tag
Candidates ==
    { [primaryAccession |-> "P1", reviewed |-> TRUE, entryType |-> ReviewedType],
      [primaryAccession |-> "P2", reviewed |-> FALSE, entryType |-> ReviewedType],
      [primaryAccession |-> "P3", reviewed |-> FALSE, entryType |-> UnreviewedType] }

RECURSIVE SeqsUpTo(_, _)
SeqsUpTo(S, n) ==
    IF n = 0 THEN {<<>>}
    ELSE LET shorter == SeqsUpTo(S, n - 1)
         IN shorter \cup {Append(s, x) : s \in {t \in shorter : Len(t) = n - 1}, x \in S}

ResultLists == SeqsUpTo(Candidates, MaxResults)

\* result.get("entryType", "").startswith("UniProtKB reviewed")
IsReviewedEntry(r) == r.entryType = ReviewedType

\* _extract_protein_info, the fields the resolution uses
ExtractProteinInfo(r) ==
    [accession |-> r.primaryAccession,
     reviewed |-> IsReviewedEntry(r),
     entry_type |-> r.entryType]

\* [r for r in results if r.get("reviewed", False)]
RECURSIVE ReviewedOnly(_)
ReviewedOnly(rs) ==
    IF rs = <<>> THEN <<>>
    ELSE IF Head(rs).reviewed THEN <<Head(rs)>> \o ReviewedOnly(Tail(rs))
    ELSE ReviewedOnly(Tail(rs))

\* lines 218-225: the list the first result is taken from
Prioritized(rs) ==
    IF Len(rs) > 1 /\ ReviewedOnly(rs) # <<>> THEN ReviewedOnly(rs) ELSE rs

\* a variant of AllAccessions that reads the list left by the restriction
AccessionsOfRestricted(rs) ==
    [k \in 1..Len(Prioritized(rs)) |-> Prioritized(rs)[k].primaryAccession]

\* line 233, [r.get("primaryAccession") for r in data.get("results", [])]
AllAccessions(rs) == [k \in 1..Len(rs) |-> rs[k].primaryAccession]

\* a variant of ProteinInfo that counts the list left by the restriction to
\* reviewed entries
InfoCountsRestricted(rs) ==
    LET info == ExtractProteinInfo(Prioritized(rs)[1])
        kept == Prioritized(rs)
    IN IF Len(kept) > 1
       THEN [accession |-> info.accession, reviewed |-> info.reviewed,
             entry_type |-> info.entry_type,
             multiple_results_found |-> TRUE,
             total_results |-> Len(kept),
             selected_result |->
                 IF \E k \in 1..Len(rs) : rs[k].reviewed
                 THEN "First reviewed entry" ELSE "First result",
             all_accessions |-> AllAccessions(rs)]
       ELSE [accession |-> info.accession, reviewed |-> info.reviewed,
             entry_type |-> info.entry_type,
             multiple_results_found |-> FALSE,
             total_results |-> 1,
             selected_result |-> "Single result"]

\* lines 215-240: the protein_info built from a non-empty results array
ProteinInfo(rs) ==
    LET info == ExtractProteinInfo(Prioritized(rs)[1])
    IN IF Len(rs) > 1
       THEN [accession |-> info.accession, reviewed |-> info.reviewed,
             entry_type |-> info.entry_type,
             multiple_results_found |-> TRUE,
             total_results |-> Len(rs),
             selected_result |->
                 IF \E k \in 1..Len(rs) : rs[k].reviewed
                 THEN "First reviewed entry" ELSE "First result",
             all_accessions |-> AllAccessions(rs)]
       ELSE [accession |-> info.accession, reviewed |-> info.reviewed,
             entry_type |-> info.entry_type,
             multiple_results_found |-> FALSE,
             total_results |-> 1,
             selected_result |-> "Single result"]

\* result.get('all_accessions', [])
GetAllAccessions(info) ==
    IF "all_accessions" \in DOMAIN info THEN info.all_accessions ELSE <<>>

\* ------------------------------------------------------------------ state
VARIABLES
    mode,            \* "batch": search_multiple_genes_robust was called; "single": search_by_gene_name_robust;
                     \* "fetch": fetch_sequence of scripts/fetch_protein_sequences.py
    gene_names,      \* the input list of the batch
    criteria,        \* the base SearchCriteria of the call
    idx,             \* number of input entries the batch loop has consumed
    results,         \* the ordered dict of the batch: a sequence of [key, entry]
    failed_queries,  \* the batch's failed_queries list
    printed,         \* history: the status lines and the final counts the batch put out
    invoked,         \* history: the symbols the batch called the resolution with
    pc,              \* "legacy", "loop", "enter", "send", "ret", "done"; "attempt" in fetch_sequence
    gene_name,       \* the gene symbol of the running resolution
    i,               \* the strategy index of the running resolution, 1..4
    query,           \* the query string of the running session.get
    retries,         \* what is left of the Retry total of the running session.get
    depth,           \* self-recursion depth of _search_with_strategy
    ret,             \* the value the last resolution returned
    calls,           \* history: the strategy index of every session.get of this resolution
    phys,            \* history: physical calls of this resolution
    resends429,      \* history: re-sends of the running session.get caused by a 429
    last,            \* history: the answer to the latest physical call of this resolution
    sentQuery,       \* history: the query the latest physical call carried
    waited,          \* history: seconds slept since the previous physical call
    paced,           \* history: a pacing sleep happened since the previous physical call
    hit,             \* history: the strategy whose response carried candidates, 0 if none
    got,             \* history: the results array of that response
    allEmpty         \* history: every finished strategy got an ok response with zero results

vars == <<mode, gene_names, criteria, idx, results, failed_queries, printed,
          invoked, pc, gene_name,
          i, query, retries, depth, ret, calls, phys, resends429, last,
          sentQuery, waited, paced, hit, got, allEmpty>>

\* the variables of a running resolution
resolveVars == <<i, query, retries, depth, ret, calls, phys, resends429, last,
                 sentQuery, waited, paced, hit, got, allEmpty>>

batchVars == <<gene_names, criteria, idx, results, failed_queries, printed, invoked>>

\* the raw gene symbols a caller passes
Tokens == { <<>>, <<WS>>, <<"A">>, <<WS, "A">>, <<"A", WS>>, <<"B">>, <<"TP53">> }

\* the entries of the input list of a batch
BatchTokens == { <<WS>>, <<"A">>, <<"A", WS>>, <<"B">> }

\* a list longer than the cadence of the status line: "A", entries that are
\* blank or repeat "A", and "B" as its last entry
LongList ==
    [k \in 1..(ProgressEvery + 1) |->
        IF k = 1 THEN <<"A">>
        ELSE IF k = ProgressEvery + 1 THEN <<"B">>
        ELSE IF k % 2 = 0 THEN <<WS>> ELSE <<"A", WS>>]

\* a list whose entries differ by leading and trailing whitespace only
SpacedList == << <<"A", WS>>, <<WS, "A">> >>

GeneLists == SeqsUpTo(BatchTokens, MaxGenes) \cup {LongList, SpacedList}

\* the base criteria a caller passes; max_results is the default 10 or 5
BaseCriteria ==
    { SearchCriteria("9606", TRUE, TRUE, 5), SearchCriteria("9606", FALSE, FALSE, 10),
      SearchCriteria("", TRUE, FALSE, 10) }

\* SearchCriteria()
DefaultCriteria == SearchCriteria("9606", TRUE, TRUE, 10)

\* the Retry-After of a 429: absent, or 2 seconds
RetryAfterHeaders == {NoHeader, 2}

\* what the service can answer to one physical call
NoAnswer == [status |-> "none"]

Answers ==
    { [status |-> "ok", results |-> rs] : rs \in ResultLists }
    \cup { [status |-> "malformed"], [status |-> "s404"], [status |-> "s503"],
           [status |-> "neterr"] }
    \cup { [status |-> "s429", retry_after |-> ra] : ra \in RetryAfterHeaders }

Keys(res) == { res[k].key : k \in 1..Len(res) }

Entry(res, g) == (CHOOSE k \in 1..Len(res) : res[k].key = g)

ErrorEntry == [error |-> "Gene not found after all strategies"]

\* a variant of DictSet that drops the entries of the other keys
DictSetAlone(res, key, entry) == <<[key |-> key, entry |-> entry]>>

\* a variant of DictSet that puts a new key in front
DictSetFront(res, key, entry) ==
    IF key \in Keys(res)
    THEN [k \in 1..Len(res) |->
             IF res[k].key = key THEN [key |-> key, entry |-> entry] ELSE res[k]]
    ELSE <<[key |-> key, entry |-> entry]>> \o res

\* results[key] = entry on a dict that keeps insertion order
DictSet(res, key, entry) ==
    IF key \in Keys(res)
    THEN [k \in 1..Len(res) |->
             IF res[k].key = key THEN [key |-> key, entry |-> entry] ELSE res[k]]
    ELSE Append(res, [key |-> key, entry |-> entry])

\* variants of ShouldResolve: without the blank test, and without the test
\* for a symbol that has an entry
ResolveAlsoBlank(g, res) == g \notin Keys(res)

ResolveRepeated(g, res) == g # <<>>

\* line 275, "if gene_name and gene_name not in results"
ShouldResolve(g, res) == g # <<>> /\ g \notin Keys(res)

\* a variant of SuccessCount that counts every entry of the report
CountsEveryEntry(res) == Len(res)

\* line 289, len([r for r in results.values() if "error" not in r])
SuccessCount(res) ==
    Cardinality({ k \in 1..Len(res) : "error" \notin DOMAIN res[k].entry })

\* lines 287-290: the status line after entry number n of total
Notify(pr, n, total, res, failed) ==
    IF n % ProgressEvery = 0 \/ n = total
    THEN Append(pr, [kind |-> "progress", processed |-> n,
                     success |-> SuccessCount(res), fail |-> Len(failed)])
    ELSE pr

\* lines 293-294: the counts logged when the loop is over
FinalCounts(res, failed) ==
    [kind |-> "completed", success |-> Len(res) - Len(failed),
     fail |-> Len(failed)]

\* nothing of a resolution is running
Idle ==
    /\ i = 0
    /\ query = <<>>
    /\ retries = 0
    /\ depth = 0
    /\ ret = None
    /\ calls = <<>>
    /\ phys = 0
    /\ resends429 = 0
    /\ last = NoAnswer
    /\ sentQuery = <<>>
    /\ waited = 0
    /\ paced = FALSE
    /\ hit = 0
    /\ got = <<>>
    /\ allEmpty = TRUE

\* a caller calls search_by_gene_name_robust(gene_name, criteria)
InitResolve ==
    /\ mode = "single"
    /\ criteria \in BaseCriteria
    /\ gene_names = <<>>
    /\ gene_name \in Tokens
    /\ pc = "enter"
    /\ idx = 0
    /\ results = <<>>
    /\ failed_queries = <<>>
    /\ printed = <<>>
    /\ invoked = <<>>
    /\ Idle

\* a caller calls search_multiple_genes_robust(gene_names): criteria is None
\* and becomes SearchCriteria() (lines 260-268)
InitBatch ==
    /\ mode = "batch"
    /\ criteria = DefaultCriteria
    /\ gene_names \in GeneLists
    /\ gene_name = <<>>
    /\ pc = "loop"
    /\ idx = 0
    /\ results = <<>>
    /\ failed_queries = <<>>
    /\ printed = <<>>
    /\ invoked = <<>>
    /\ Idle

\* a caller calls a legacy entry point, search_by_gene_name(gene_name) or
\* search_multiple_genes(gene_names); neither takes criteria
InitLegacy ==
    /\ pc = "legacy"
    /\ criteria = None
    /\ \/ mode = "single" /\ gene_name \in Tokens /\ gene_names = <<>>
       \/ mode = "batch" /\ gene_name = <<>> /\ gene_names \in GeneLists
    /\ idx = 0
    /\ results = <<>>
    /\ failed_queries = <<>>
    /\ printed = <<>>
    /\ invoked = <<>>
    /\ Idle

\* ------------------------------------------- the session and its adapter
\* Retry(status_forcelist=[429, 500, 502, 503, 504]) on an idempotent GET, and
\* the connection errors and timeouts that count against the Retry total
Retryable(a) == a.status \in {"s429", "s503", "neterr"}

\* variants of RetryBudgetLeft: a budget that never runs out, and one that
\* allows one re-send too many
AlwaysBudget(r) == TRUE

BudgetOffByOne(r) == r >= 0

\* the Retry total still allows a re-send
RetryBudgetLeft(r) == r > 0

Pow2(n) == IF n <= 0 THEN 1 ELSE IF n = 1 THEN 2 ELSE IF n = 2 THEN 4 ELSE 8

\* Retry(backoff_factor=1): the sleep before re-send number n; the first one
\* is 0 or backoff_factor depending on the urllib3 release
BackoffWaits(n) ==
    IF n <= 1 THEN {0, backoff_factor} ELSE {backoff_factor * Pow2(n - 1)}

\* the adapter's sleep before a re-send: Retry-After when the response
\* carries it, else the backoff
AdapterSleeps(a, n) ==
    IF a.status = "s429" /\ a.retry_after # NoHeader
    THEN {a.retry_after}
    ELSE BackoffWaits(n)

\* int(response.headers.get('Retry-After', 60))
RetryAfterOf(a) ==
    IF a.retry_after = NoHeader THEN DefaultRetryAfter ELSE a.retry_after

\* what one physical call leads to: the adapter re-sends or raises
\* ("resend", "raise"), or session.get returns and lines 211-250 handle the
\* response: a record ("info"), None ("none"), an exception of
\* response.json() ("raise"), or the sleep and self-call of lines 242-246
\* ("recurse")
Outcome(a, r) ==
    IF Retryable(a)
    THEN IF RetryBudgetLeft(r) THEN "resend" ELSE "raise"
    ELSE IF a.status = "ok"
         THEN IF a.results = <<>> THEN "none" ELSE "info"
         ELSE IF a.status = "malformed" THEN "raise"
         ELSE IF a.status = "s429" THEN "recurse"
         ELSE "none"

\* a variant of Truthy that takes every result for empty
NeverTruthy(result) == FALSE

\* line 183, "if result:"
Truthy(result) == result # None

\* a variant of ExceptionCaught: the exception leaves the resolution
ExceptionEscapes == FALSE

\* lines 186-188, "except Exception ... continue"
ExceptionCaught == TRUE

\* the value _search_with_strategy returns for a response it got
ReturnValue(a) ==
    IF a.status = "ok" /\ a.results # <<>> THEN ProteinInfo(a.results) ELSE None

\* ---------------------------------------------------------------- actions
\* the batch loop takes an entry that is non-blank and new: it calls the
\* resolution (lines 273-277)
BatchResolve ==
    /\ pc = "loop"
    /\ idx < Len(gene_names)
    /\ ShouldResolve(Strip(gene_names[idx + 1]), results)
    /\ gene_name' = Strip(gene_names[idx + 1])
    /\ invoked' = Append(invoked, gene_name')
    /\ pc' = "enter"
    /\ UNCHANGED <<mode, gene_names, criteria, idx, results, failed_queries,
                   printed, resolveVars>>

\* a variant of BatchSkip in which putting out the status line empties
\* failed_queries
BatchSkipLineResets ==
    /\ pc = "loop"
    /\ idx < Len(gene_names)
    /\ ~ShouldResolve(Strip(gene_names[idx + 1]), results)
    /\ idx' = idx + 1
    /\ printed' = Notify(printed, idx + 1, Len(gene_names), results, failed_queries)
    /\ failed_queries' = IF printed' # printed THEN <<>> ELSE failed_queries
    /\ UNCHANGED <<mode, gene_names, criteria, results, invoked,
                   pc, gene_name, resolveVars>>

\* the batch loop passes over a blank or repeated entry (lines 273-275,
\* 284-290)
BatchSkip ==
    /\ pc = "loop"
    /\ idx < Len(gene_names)
    /\ ~ShouldResolve(Strip(gene_names[idx + 1]), results)
    /\ idx' = idx + 1
    /\ printed' = Notify(printed, idx + 1, Len(gene_names), results, failed_queries)
    /\ UNCHANGED <<mode, gene_names, criteria, results, failed_queries, invoked,
                   pc, gene_name, resolveVars>>

\* a variant of LegacyEnter that passes criteria of its own
LegacyEnterOwnCriteria ==
    /\ pc = "legacy"
    /\ criteria' = SearchCriteria("", TRUE, TRUE, 10)
    /\ paced' = (mode = "single")
    /\ pc' = IF mode = "single" THEN "enter" ELSE "loop"
    /\ UNCHANGED <<mode, gene_names, idx, results, failed_queries, printed,
                   invoked, gene_name, i, query, retries, depth, ret, calls,
                   phys, resends429, last, sentQuery, waited, hit, got, allEmpty>>

\* a legacy entry point hands over to the robust one with SearchCriteria():
\* search_by_gene_name after its own decorator's pacing sleep (lines
\* 252-255), search_multiple_genes at once (lines 298-300)
LegacyEnter ==
    /\ pc = "legacy"
    /\ criteria' = DefaultCriteria
    /\ paced' = (mode = "single")
    /\ pc' = IF mode = "single" THEN "enter" ELSE "loop"
    /\ UNCHANGED <<mode, gene_names, idx, results, failed_queries, printed,
                   invoked, gene_name, i, query, retries, depth, ret, calls,
                   phys, resends429, last, sentQuery, waited, hit, got, allEmpty>>

\* search_by_gene_name_robust starts: the decorator's pacing sleep, the
\* strategies list, and the session.get of strategy 1 is issued
ResolveEnter ==
    /\ pc = "enter"
    /\ paced' = TRUE
    /\ i' = 1
    /\ query' = BuildSearchQuery(gene_name, Strategies(criteria)[1])
    /\ retries' = max_retries
    /\ depth' = 0
    /\ ret' = None
    /\ calls' = <<1>>
    /\ phys' = 0
    /\ resends429' = 0
    /\ last' = NoAnswer
    /\ sentQuery' = <<>>
    /\ waited' = 0
    /\ hit' = 0
    /\ got' = <<>>
    /\ allEmpty' = TRUE
    /\ pc' = "send"
    /\ UNCHANGED <<mode, batchVars, gene_name>>

\* the history of the physical calls is kept for a resolution that is called
\* directly; no action reads it
Observed(old, new) == IF mode = "single" THEN new ELSE old

\* what the history keeps of an answer
Seen(a) == IF a.status = "ok" THEN [status |-> "ok"] ELSE a

\* the strategy loop goes on after strategy i yielded nothing on answer a:
\* the next strategy's session.get, or "return None" after the last one
Advance(a) ==
    /\ allEmpty' = (allEmpty /\ a.status = "ok" /\ a.results = <<>>)
    /\ resends429' = 0
    /\ last' = Observed(last, Seen(a))
    /\ waited' = 0
    /\ depth' = 0
    /\ IF i < NumStrategies
       THEN /\ i' = i + 1
            /\ query' = BuildSearchQuery(gene_name, Strategies(criteria)[i + 1])
            /\ retries' = max_retries
            /\ calls' = Append(calls, i + 1)
            /\ pc' = "send"
            /\ ret' = ret
       ELSE /\ ret' = None
            /\ pc' = "ret"
            /\ retries' = 0
            /\ UNCHANGED <<i, query, calls>>

\* one physical call of the running session.get and what follows it up to
\* the next physical call or the return of the resolution
PhysicalCall ==
    /\ pc = "send"
    /\ phys' = Observed(phys, phys + 1)
    /\ sentQuery' = Observed(sentQuery, query)
    /\ paced' = FALSE
    /\ \E a \in Answers :
        LET o == Outcome(a, retries) IN
        CASE o = "resend" ->
               /\ retries' = retries - 1
               /\ resends429' =
                      Observed(resends429,
                               resends429 + (IF a.status = "s429" THEN 1 ELSE 0))
               /\ last' = Observed(last, Seen(a))
               /\ \E w \in AdapterSleeps(a, max_retries - retries + 1) :
                      waited' = Observed(waited, w)
               /\ UNCHANGED <<pc, i, query, depth, ret, calls, hit, got, allEmpty>>
          [] o = "recurse" ->
               /\ retries' = max_retries
               /\ resends429' = Observed(resends429, resends429 + 1)
               /\ last' = Observed(last, Seen(a))
               /\ waited' = Observed(waited, RetryAfterOf(a))
               /\ depth' = depth + 1
               /\ calls' = Append(calls, i)
               /\ UNCHANGED <<pc, i, query, ret, hit, got, allEmpty>>
          [] o = "raise" ->
               IF ExceptionCaught
               THEN Advance(a) /\ UNCHANGED <<hit, got>>
               ELSE /\ pc' = "raised"
                    /\ last' = Observed(last, Seen(a))
                    /\ UNCHANGED <<i, query, retries, depth, ret, calls,
                                   resends429, waited, hit, got, allEmpty>>
          [] o = "info" ->
               /\ hit' = i
               /\ got' = a.results
               /\ IF Truthy(ReturnValue(a))
                  THEN /\ ret' = ReturnValue(a)
                       /\ pc' = "ret"
                       /\ last' = Observed(last, Seen(a))
                       /\ waited' = 0
                       /\ retries' = 0
                       /\ resends429' = 0
                       /\ depth' = 0
                       /\ allEmpty' = FALSE
                       /\ UNCHANGED <<i, query, calls>>
                  ELSE Advance(a)
          [] o = "none" -> Advance(a) /\ UNCHANGED <<hit, got>>
    /\ UNCHANGED <<mode, batchVars, gene_name>>

\* a variant of BatchFold that does not list the failed symbol
BatchFoldUnlisted ==
    /\ pc = "ret"
    /\ mode = "batch"
    /\ results' = DictSet(results, gene_name, IF Truthy(ret) THEN ret ELSE ErrorEntry)
    /\ failed_queries' = failed_queries
    /\ idx' = idx + 1
    /\ printed' = Notify(printed, idx + 1, Len(gene_names), results', failed_queries')
    /\ pc' = "loop"
    /\ UNCHANGED <<mode, gene_names, criteria, invoked, gene_name, resolveVars>>

\* the resolution returned to the batch loop: lines 278-290
BatchFold ==
    /\ pc = "ret"
    /\ mode = "batch"
    /\ IF Truthy(ret)
       THEN /\ results' = DictSet(results, gene_name, ret)
            /\ failed_queries' = failed_queries
       ELSE /\ results' = DictSet(results, gene_name, ErrorEntry)
            /\ failed_queries' = Append(failed_queries, gene_name)
    /\ idx' = idx + 1
    /\ printed' = Notify(printed, idx + 1, Len(gene_names), results', failed_queries')
    /\ pc' = "loop"
    /\ UNCHANGED <<mode, gene_names, criteria, invoked, gene_name, resolveVars>>

\* the batch loop ran out of entries: the final counts and "return results"
\* (lines 292-296)
BatchReturn ==
    /\ pc = "loop"
    /\ idx = Len(gene_names)
    /\ printed' = Append(printed, FinalCounts(results, failed_queries))
    /\ pc' = "done"
    /\ UNCHANGED <<mode, gene_names, criteria, idx, results, failed_queries,
                   invoked, gene_name, resolveVars>>

\* the resolution returned to a caller that called it directly
SingleReturn ==
    /\ pc = "ret"
    /\ mode = "single"
    /\ pc' = "done"
    /\ UNCHANGED <<mode, batchVars, gene_name, resolveVars>>

\* ------------------- scripts/fetch_protein_sequences.py: fetch_sequence
\* In mode "fetch" the variables hold the state of one call of
\* fetch_sequence(session, protein_id): gene_name the protein id, i the loop
\* variable attempt, retries what is left of the Retry total of the running
\* session.get, phys the physical calls, last the latest answer, waited the
\* seconds slept before the next call, ret the value returned.

\* fetch_sequence(..., max_retries=3, ...)
fetch_max_retries == 3
\* setup_session: Retry(total=3, ...)
fetch_retry_total == 3

\* what the server can do to one physical call of fetch_sequence
FetchAnswers ==
    { [status |-> "ok", value |-> v] : v \in {"MSEQ", "absent"} }
    \cup { [status |-> "malformed"], [status |-> "s404"], [status |-> "s503"],
           [status |-> "neterr"], [status |-> "rtimeout"], [status |-> "ctimeout"] }
    \cup { [status |-> "s429", retry_after |-> ra] : ra \in RetryAfterHeaders }

\* what the adapter of setup_session re-sends: the statuses of its
\* status_forcelist, connection errors, and connect and read timeouts
FetchRetryable(a) ==
    a.status \in {"s429", "s503", "neterr", "rtimeout", "ctimeout"}

\* what one physical call of fetch_sequence leads to: the adapter re-sends
\* ("resend"); session.get raises requests' Timeout, which is the
\* ConnectTimeout of a used-up total ("timeout", line 54), or another
\* RequestException, among them RetryError, ConnectionError and the
\* JSONDecodeError of response.json() ("none", line 63); or session.get
\* returns: a sequence ("value"), no sequence or a status that is not ok
\* ("none", lines 44, 52), or a 429 ("rate_limited", lines 45-49)
FetchOutcome(a, r) ==
    IF FetchRetryable(a)
    THEN IF RetryBudgetLeft(r) THEN "resend"
         ELSE IF a.status = "ctimeout" THEN "timeout" ELSE "none"
    ELSE IF a.status = "ok" THEN (IF a.value = "absent" THEN "none" ELSE "value")
    ELSE IF a.status = "s429" THEN "rate_limited"
    ELSE "none"

\* what fetch_sequence leaves alone
fetchFrame == <<mode, gene_names, criteria, idx, results, failed_queries, printed,
                invoked, gene_name, query, depth, calls, resends429, sentQuery,
                hit, got, allEmpty>>

\* a caller calls fetch_sequence(setup_session(), protein_id)
InitFetch ==
    /\ mode = "fetch"
    /\ pc = "attempt"
    /\ gene_name \in { <<"P1">>, <<"P2">> }
    /\ criteria = None
    /\ gene_names = <<>>
    /\ idx = 0
    /\ results = <<>>
    /\ failed_queries = <<>>
    /\ printed = <<>>
    /\ invoked = <<>>
    /\ Idle

\* the head of "for attempt in range(max_retries)": the pacing sleep of line
\* 31 and the session.get of the attempt, or "return None" (line 67) when the
\* range is used up
FetchAttempt ==
    /\ pc = "attempt"
    /\ IF i < fetch_max_retries
       THEN /\ paced' = TRUE
            /\ retries' = fetch_retry_total
            /\ pc' = "send"
            /\ ret' = ret
       ELSE /\ ret' = None
            /\ pc' = "done"
            /\ UNCHANGED <<paced, retries>>
    /\ UNCHANGED <<i, phys, last, waited, fetchFrame>>

\* the attempt of fetch_sequence is over and the loop goes on with the next
\* one after a sleep of w seconds
FetchContinue(w) ==
    /\ i' = i + 1
    /\ waited' = w
    /\ pc' = "attempt"
    /\ retries' = 0
    /\ ret' = ret

\* fetch_sequence returns v
FetchReturn(v) ==
    /\ ret' = v
    /\ pc' = "done"
    /\ retries' = 0
    /\ waited' = 0
    /\ i' = i

\* one physical call of the running session.get of fetch_sequence and what
\* follows it up to the next physical call, the next attempt or the return
\* (lines 34-65)
FetchCall ==
    /\ pc = "send"
    /\ phys' = phys + 1
    /\ paced' = FALSE
    /\ \E a \in FetchAnswers :
        LET o == FetchOutcome(a, retries) IN
        /\ last' = [status |-> a.status]
        /\ CASE o = "resend" ->
                 /\ retries' = retries - 1
                 /\ \E w \in AdapterSleeps(a, fetch_retry_total - retries + 1) :
                        waited' = w
                 /\ UNCHANGED <<pc, i, ret>>
            [] o = "rate_limited" -> FetchContinue(RetryAfterOf(a))
            [] o = "timeout" ->
                 IF i < fetch_max_retries - 1
                 THEN \E jitter \in {0, 1} : FetchContinue(Pow2(i) + jitter)
                 ELSE FetchReturn(None)
            [] o = "value" -> FetchReturn([sequence |-> a.value])
            [] o = "none" -> FetchReturn(None)
    /\ UNCHANGED fetchFrame

\* one call of fetch_sequence
NextFetch ==
    \/ FetchAttempt
    \/ FetchCall

\* one call of search_by_gene_name_robust
NextResolve ==
    \/ ResolveEnter
    \/ PhysicalCall
    \/ SingleReturn

\* one call of search_multiple_genes_robust
NextBatch ==
    \/ BatchResolve
    \/ BatchSkip
    \/ ResolveEnter
    \/ PhysicalCall
    \/ BatchFold
    \/ BatchReturn

\* one call of a legacy entry point
NextLegacy ==
    \/ LegacyEnter
    \/ BatchResolve
    \/ BatchSkip
    \/ ResolveEnter
    \/ PhysicalCall
    \/ BatchFold
    \/ BatchReturn
    \/ SingleReturn

Spec == InitResolve /\ [][NextResolve]_vars

LegacySpec == InitLegacy /\ [][NextLegacy]_vars

FetchSpec == InitFetch /\ [][NextFetch]_vars

BatchSpec == InitBatch /\ [][NextBatch]_vars

\* the calls run sequentially and every physical call ends: the service
\* answers or the call's timeout expires
FairSpec == Spec /\ WF_vars(NextResolve)

\* ----------------------------------------------------------------- claims
\* the stripped, non-blank symbols among the first n input entries
UniqueNonBlank(n) == { Strip(gene_names[k]) : k \in 1..n } \ { <<>> }

\* C1: once the transport returned candidates for strategy k, no session.get
\* of a later strategy is issued; candidates on strategy 1 mean one transport
\* call in the whole resolution.
C1_FirstSuccessShortCircuit ==
    /\ hit # 0 => \A k \in 1..Len(calls) : calls[k] <= hit
    /\ hit = 1 => calls = <<1>>

C1_Witness ==
    /\ pc = "done"
    /\ hit = 1
    /\ calls = <<1>>
    /\ phys = 1
    /\ ret # None
    /\ ret.reviewed

\* C2: when every strategy got an ok response with zero results, the
\* transport was called four times, for strategies 1, 2, 3, 4 in this order,
\* the resolution returned nothing and the gene's entry is the not-found error.
C2_Exhaustion ==
    (pc \in {"ret", "loop", "done"} /\ calls # <<>> /\ allEmpty)
        => /\ calls = <<1, 2, 3, 4>>
           /\ ret = None
           /\ pc # "ret" =>
                 /\ gene_name \in Keys(results)
                 /\ results[Entry(results, gene_name)].entry = ErrorEntry
                 /\ \E k \in 1..Len(failed_queries) : failed_queries[k] = gene_name

C2_Witness ==
    /\ pc = "done"
    /\ allEmpty
    /\ calls = <<1, 2, 3, 4>>
    /\ results # <<>>
    /\ results[Len(results)].entry = ErrorEntry

\* C3: in every state of the batch the report holds exactly one entry for
\* each unique non-blank symbol among the entries consumed so far, and no
\* other key.
C3_OneEntryPerUniqueSymbol ==
    /\ Keys(results) = UniqueNonBlank(idx)
    /\ Cardinality(Keys(results)) = Len(results)

C3_Witness ==
    /\ pc = "done"
    /\ Len(gene_names) = 2
    /\ gene_names[1] # gene_names[2]
    /\ Strip(gene_names[1]) = Strip(gene_names[2])
    /\ Len(results) = 1

\* C4: the accessions recorded beside a successful result never include the
\* selected accession and hold no accession twice.
C4_AlternatesExcludeCanonical ==
    (pc = "done" /\ ret # None) =>
        LET alts == GetAllAccessions(ret)
        IN /\ \A k \in 1..Len(alts) : alts[k] # ret.accession
           /\ \A j, k \in 1..Len(alts) : j # k => alts[j] # alts[k]

\* C5: the re-sends of one query caused by a 429 never exceed max_retries; a
\* 429 answer is followed by a re-send of the same query while the budget
\* lasts, and by the failure of the strategy once it is used up.
C5_RetryCeiling ==
    /\ [](resends429 <= max_retries)
    /\ [][(pc = "send" /\ phys' = phys + 1 /\ last'.status = "s429") =>
            IF retries > 0
            THEN /\ retries' = retries - 1
                 /\ resends429' = resends429 + 1
                 /\ pc' = "send"
                 /\ i' = i
                 /\ query' = query
            ELSE /\ resends429' = 0
                 /\ ~allEmpty'
                 /\ hit' = hit
                 /\ \/ i < NumStrategies /\ i' = i + 1 /\ pc' = "send"
                    \/ i = NumStrategies /\ pc' = "ret" /\ ret' = None]_vars

C5_Witness ==
    /\ pc = "send"
    /\ retries = 0
    /\ resends429 = max_retries

\* C6: every resolution returns, whatever the service answers, and it returns
\* either a record taken from the response of the one strategy that carried
\* candidates, the last one called, or nothing after all four strategies.
C6_WaterfallTerminates ==
    /\ <>(pc = "done")
    /\ [](pc = "done" =>
            \/ /\ ret # None
               /\ hit = Len(calls)
               /\ calls = [k \in 1..hit |-> k]
               /\ \E k \in 1..Len(got) : got[k].primaryAccession = ret.accession
            \/ /\ ret = None
               /\ hit = 0
               /\ calls = [k \in 1..NumStrategies |-> k])

C6_Witness ==
    /\ pc = "done"
    /\ ret = None
    /\ last.status = "s429"
    /\ phys = NumStrategies * (max_retries + 1)

\* C7 as stated: the physical calls of one resolution never exceed
\* 4 strategies times the retry ceiling.
C7_CallsWithinStrategiesTimesCeiling == phys <= NumStrategies * max_retries

\* C7, amended: the physical calls of one resolution never exceed
\* 4 strategies times (the retry ceiling + 1): the first send and
\* max_retries re-sends for each strategy.
C7_CallsWithinStrategiesTimesAttempts == phys <= NumStrategies * (max_retries + 1)

C7_Witness ==
    /\ phys = NumStrategies * (max_retries + 1)
    /\ pc = "done"

\* C8: a re-send after a 429 carries the query of the call before it and
\* comes after a wait of at least the advertised Retry-After, or of 60
\* seconds when the header is absent.
C8_WaitsRetryAfterThenSameQuery ==
    (pc = "send" /\ retries < max_retries /\ last.status = "s429") =>
        /\ query = sentQuery
        /\ waited >= RetryAfterOf(last)

\* C9: a resolution called with an empty or whitespace-only symbol makes no
\* physical call.
C9_BlankSymbolMakesNoCall ==
    (mode = "single" /\ Strip(gene_name) = <<>>) => phys = 0

\* C10: no failure of a resolution aborts the batch: the failed gene gets an
\* error entry, the loop goes on, and the report returned has an entry for
\* every unique non-blank input symbol.
C10_FailureNeverAbortsBatch ==
    /\ pc # "raised"
    /\ (pc = "loop" /\ calls # <<>> /\ ret = None) =>
          /\ gene_name \in Keys(results)
          /\ results[Entry(results, gene_name)].entry = ErrorEntry
    /\ pc = "done" =>
          /\ idx = Len(gene_names)
          /\ Keys(results) = UniqueNonBlank(Len(gene_names))

C10_Witness ==
    /\ pc = "done"
    /\ Len(results) = 2
    /\ results[1].entry = ErrorEntry
    /\ ret = None
    /\ ~allEmpty

\* C11: whenever the batch puts out a status line or its final counts, the
\* success count is the number of report entries that carry a selection, the
\* failure count is the number of entries that carry the error, and the two
\* add up to the number of entries.
C11_CountsMatchReport ==
    [][printed' # printed =>
         LET line == printed'[Len(printed')]
             selected == { k \in 1..Len(results') :
                             "accession" \in DOMAIN results'[k].entry }
             errored == { k \in 1..Len(results') : results'[k].entry = ErrorEntry }
         IN /\ line.success = Cardinality(selected)
            /\ line.fail = Cardinality(errored)
            /\ line.success + line.fail = Len(results')]_vars

C11_Witness ==
    /\ pc = "done"
    /\ Len(gene_names) > ProgressEvery
    /\ \E k \in 1..Len(printed) :
           /\ printed[k].kind = "progress"
           /\ printed[k].processed = ProgressEvery
           /\ printed[k].success = 1
           /\ printed[k].fail = 0
    /\ printed[Len(printed)] = [kind |-> "completed", success |-> 1, fail |-> 1]
    /\ Len(results) = 2
    /\ results[2].entry = ErrorEntry
    /\ allEmpty

\* C12: the query of every session.get is the " AND "-join of the gene clause
\* ("gene_exact:" + gene for an exact strategy, else "gene:" + gene), then
\* "organism_id:" + id exactly when the criteria carry an organism id, then
\* "reviewed:true" exactly when the strategy is reviewed-only; for TP53, 9606,
\* reviewed and exact it is "gene_exact:TP53 AND organism_id:9606 AND
\* reviewed:true".
C12_QueryClauses ==
    pc = "send" =>
        LET exact == i \in {1, 2}
            rev == i \in {1, 3}
            org == criteria.organism_id
            gene == <<(IF exact THEN "gene_exact:" ELSE "gene:")>> \o gene_name
        IN /\ query =
                 CASE org # "" /\ rev ->
                        gene \o <<" AND ", "organism_id:", org, " AND ", "reviewed:true">>
                   [] org # "" /\ ~rev -> gene \o <<" AND ", "organism_id:", org>>
                   [] org = "" /\ rev -> gene \o <<" AND ", "reviewed:true">>
                   [] OTHER -> gene
           /\ (gene_name = <<"TP53">> /\ org = "9606" /\ i = 1) =>
                 query = <<"gene_exact:", "TP53", " AND ", "organism_id:", "9606",
                           " AND ", "reviewed:true">>

C12_Witness ==
    /\ pc = "send"
    /\ phys = 1
    /\ i = 1
    /\ sentQuery = <<"gene_exact:", "TP53", " AND ", "organism_id:", "9606",
                     " AND ", "reviewed:true">>

\* C13: the plan of every base criteria is four strategies, in the order
\* (reviewed, exact), (not reviewed, exact), (reviewed, fuzzy), (not reviewed,
\* fuzzy), each with the organism id and the max_results of the base; the
\* strategy a resolution is at is the one the plan of its base holds at that
\* position.
C13_PlanFixedOrder ==
    LET plan == Strategies(criteria)
        flags == << <<TRUE, TRUE>>, <<FALSE, TRUE>>, <<TRUE, FALSE>>, <<FALSE, FALSE>> >>
    IN /\ Len(plan) = 4
       /\ \A k \in 1..4 :
             /\ <<plan[k].reviewed_only, plan[k].exact_match>> = flags[k]
             /\ plan[k].organism_id = criteria.organism_id
             /\ plan[k].max_results = criteria.max_results
       /\ pc = "send" => query = BuildSearchQuery(gene_name, plan[i])
       /\ calls # <<>> => calls[Len(calls)] = i

C13_Witness ==
    /\ pc = "send"
    /\ ~criteria.reviewed_only
    /\ ~criteria.exact_match
    /\ i = 1
    /\ query = <<"gene_exact:", "A", " AND ", "organism_id:", "9606",
                 " AND ", "reviewed:true">>
    /\ Strategies(criteria)[4].max_results = 10

\* the stripped non-blank symbols of the first n input entries, each once, in
\* the order of their first occurrence
RECURSIVE FirstSeen(_)
FirstSeen(n) ==
    IF n = 0 THEN <<>>
    ELSE LET before == FirstSeen(n - 1)
             g == Strip(gene_names[n])
         IN IF g = <<>> \/ \E k \in 1..Len(before) : before[k] = g
            THEN before
            ELSE Append(before, g)

\* C14: the keys of the report, in the report's order, are the unique
\* non-blank symbols of the entries consumed so far in the order of their
\* first occurrence in the input; so are the keys of the report returned.
C14_ReportInFirstSeenOrder ==
    /\ [k \in 1..Len(results) |-> results[k].key] = FirstSeen(idx)
    /\ pc = "done" => idx = Len(gene_names)

C14_Witness ==
    /\ pc = "done"
    /\ gene_names = << <<"B">>, <<"A", WS>> >>
    /\ Len(results) = 2
    /\ results[1].key = <<"B">>
    /\ results[2].key = <<"A">>
    /\ results[1].entry = ErrorEntry
    /\ results[2].entry # ErrorEntry

\* C15: the batch calls the resolution once for each unique non-blank symbol
\* among the entries it has taken and never with a blank symbol; a symbol
\* that occurs again is not resolved again, whether its entry is a record or
\* the error.
C15_OneResolutionPerSymbol ==
    /\ \A k \in 1..Len(invoked) : invoked[k] # <<>> /\ Strip(invoked[k]) = invoked[k]
    /\ \A j, k \in 1..Len(invoked) : j # k => invoked[j] # invoked[k]
    /\ { invoked[k] : k \in 1..Len(invoked) } =
           UniqueNonBlank(IF pc \in {"loop", "done"} THEN idx ELSE idx + 1)

C15_Witness ==
    /\ pc = "done"
    /\ Len(gene_names) > ProgressEvery
    /\ invoked = << <<"A">>, <<"B">> >>
    /\ results[1].entry = ErrorEntry
    /\ results[2].entry # ErrorEntry

\* C16: when the session.get of strategy k ends in a failure (the adapter
\* gave up on 429, 5xx or a network error, the body was malformed, or the
\* status was another error), the resolution goes on exactly as after an ok
\* response with zero results: for k < 4 the session.get of strategy k + 1 is
\* issued with a fresh retry budget and nothing is returned yet, for k = 4 the
\* resolution returns nothing.
C16_FailureFallsBackLikeEmpty ==
    [][(pc = "send" /\ phys' = phys + 1 /\
          \/ last'.status \in {"s429", "s503", "neterr"} /\ retries = 0
          \/ last'.status \in {"s404", "malformed"}
          \/ last'.status = "ok" /\ hit' = 0)
        => /\ pc' # "raised"
           /\ ret' = None
           /\ hit' = hit
           /\ got' = got
           /\ IF i < NumStrategies
              THEN /\ pc' = "send"
                   /\ i' = i + 1
                   /\ query' = BuildSearchQuery(gene_name, Strategies(criteria)[i + 1])
                   /\ retries' = max_retries
                   /\ calls' = Append(calls, i + 1)
              ELSE pc' = "ret"]_vars

C16_Witness ==
    /\ pc = "done"
    /\ ret # None
    /\ hit = 2
    /\ calls = <<1, 2>>
    /\ phys = max_retries + 2
    /\ ~allEmpty

\* C17: when the response of the succeeding strategy holds a reviewed entry,
\* the record returned is that of the first reviewed entry of the response
\* and its reviewed flag is true; when it holds none, the record is that of
\* the first entry.
C17_FirstReviewedSelected ==
    (pc = "done" /\ ret # None) =>
        LET rev == { k \in 1..Len(got) : IsReviewedEntry(got[k]) }
        IN IF rev # {}
           THEN /\ ret.accession =
                      got[CHOOSE k \in rev : \A j \in rev : k <= j].primaryAccession
                /\ ret.reviewed
           ELSE ret.accession = got[1].primaryAccession

\* C18: in every record a resolution returns, multiple_results_found is true
\* exactly when the results array of the succeeding response, as the service
\* sent it, had more than one entry, and total_results is the length of that
\* array; a response with one entry gives "Single result" with total_results 1.
C18_AmbiguityFromOriginalList ==
    ret # None =>
        /\ ret.multiple_results_found = (Len(got) > 1)
        /\ ret.total_results = Len(got)
        /\ Len(got) = 1 => ret.selected_result = "Single result"
        /\ Len(got) > 1 => ret.selected_result # "Single result"

C18_Witness ==
    /\ pc = "done"
    /\ ret # None
    /\ Len(got) = 2
    /\ Len(ReviewedOnly(got)) = 1
    /\ ret.accession = "P1"
    /\ ret.multiple_results_found
    /\ ret.total_results = 2

\* C19: whenever a physical call is about to be made, a pacing sleep has
\* happened since the physical call before it: also before the calls of
\* strategies 2 to 4 and before every re-send.
C19_PacedBeforeEveryCall == pc = "send" => paced

\* C20: a session.get is re-sent at most max_retries times; a re-send after
\* a 5xx answer or a network failure carries the query of the call before it
\* and comes after a backoff wait; after an answer that is not retryable the
\* next physical call is not a re-send.
C20_BackoffBeforeEveryResend ==
    /\ retries \in 0..max_retries
    /\ (pc = "send" /\ retries < max_retries /\ last.status \in {"s503", "neterr"}) =>
          /\ query = sentQuery
          /\ waited > 0
    /\ (pc = "send" /\ last.status \in {"ok", "s404", "malformed"}) =>
          retries = max_retries

\* C21: the entry of a gene is the not-found error only when every one of the
\* four strategies got an ok response with zero results; a gene whose
\* strategies ended in failures carries an entry of another kind.
C21_NotFoundOnlyWhenAllEmpty ==
    (pc \in {"loop", "done"} /\ calls # <<>>
       /\ results[Entry(results, gene_name)].entry = ErrorEntry) => allEmpty

\* C22: the record a resolution returns holds the index of the strategy whose
\* response carried the candidates, the first such strategy of the waterfall;
\* a resolution that returns nothing records no index.
C22_StrategyIndexRecorded ==
    pc = "done" =>
        IF ret # None
        THEN /\ "strategy" \in DOMAIN ret
             /\ ret.strategy = hit
        ELSE hit = 0

\* C23: putting out a status line or the final counts changes nothing but the
\* output: in every step of the batch loop, with or without a line, the
\* report, the failure list and the position are what the loop's own
\* statements make them, and no transport call is added or dropped.
C23_StatusLinesOnlyObserve ==
    [][(mode = "batch" /\ pc \in {"loop", "ret"} /\ pc' # "enter") =>
         /\ calls' = calls
         /\ hit' = hit
         /\ ret' = ret
         /\ invoked' = invoked
         /\ gene_names' = gene_names
         /\ IF pc = "ret"
            THEN /\ idx' = idx + 1
                 /\ results' = DictSet(results, gene_name,
                                       IF ret # None THEN ret ELSE ErrorEntry)
                 /\ failed_queries' =
                        IF ret # None THEN failed_queries
                        ELSE Append(failed_queries, gene_name)
            ELSE /\ results' = results
                 /\ failed_queries' = failed_queries
                 /\ idx' = IF idx < Len(gene_names) THEN idx + 1 ELSE idx]_vars

C23_Witness ==
    /\ pc = "loop"
    /\ idx = ProgressEvery
    /\ Len(gene_names) > ProgressEvery
    /\ Len(printed) = 1
    /\ printed[1].processed = ProgressEvery
    /\ printed[1].fail = 1
    /\ failed_queries = << <<"A">> >>
    /\ Len(results) = 1

\* C24: a record built from a response with more than one entry lists, under
\* all_accessions, the accession of every entry of the response as the
\* service sent it, in the service's order; the list is as long as
\* total_results says.
C24_AllAccessionsFromOriginal ==
    (ret # None /\ Len(got) > 1) =>
        /\ "all_accessions" \in DOMAIN ret
        /\ ret.all_accessions = [k \in 1..Len(got) |-> got[k].primaryAccession]
        /\ Len(ret.all_accessions) = ret.total_results

C24_Witness ==
    /\ pc = "done"
    /\ ret # None
    /\ Len(got) = 2
    /\ got[1].primaryAccession = "P3"
    /\ ret.accession = "P1"
    /\ ret.all_accessions = <<"P3", "P1">>

\* C25: the entry of a gene in the batch report is what its own resolution
\* returns from its own responses, as a resolution called alone does: every
\* resolution starts from the same state whatever ran before it, its return
\* value is the record of the first response that carried candidates (else
\* nothing), the entry folded into the report is that value, and no later
\* step changes an entry that is in the report.
C25_EntryIsOwnResolution ==
    /\ [](pc = "ret" =>
            /\ ret = (IF hit # 0 THEN ProteinInfo(got) ELSE None)
            /\ calls = [k \in 1..(IF hit # 0 THEN hit ELSE NumStrategies) |-> k])
    /\ []((mode = "batch" /\ pc \in {"loop", "done"} /\ calls # <<>>) =>
            results[Entry(results, gene_name)].entry =
                (IF hit # 0 THEN ProteinInfo(got) ELSE ErrorEntry))
    /\ [][pc = "enter" =>
            /\ i' = 1
            /\ retries' = max_retries
            /\ calls' = <<1>>
            /\ hit' = 0
            /\ query' = BuildSearchQuery(gene_name, Strategies(criteria)[1])]_vars
    /\ [][/\ Len(results') >= Len(results)
          /\ \A k \in 1..Len(results) : results'[k] = results[k]]_vars

C25_Witness ==
    /\ pc = "done"
    /\ gene_names = << <<"A">>, <<"B">> >>
    /\ Len(results) = 2
    /\ results[1].entry = ProteinInfo(<< CHOOSE c \in Candidates : c.primaryAccession = "P3" >>)
    /\ results[2].entry = ErrorEntry
    /\ hit = 0
    /\ allEmpty

\* C26: a legacy entry point hands over to the robust one in the state in
\* which a direct call with SearchCriteria() starts it (search_by_gene_name
\* after one more pacing sleep), so the queries sent and the value returned
\* are those of the direct call: every query is that of the default
\* criteria's plan, a single resolution returns the record of the first
\* response with candidates or nothing, and the batch returns its report.
C26_LegacyHandsOverToRobust ==
    /\ [][pc = "legacy" =>
            /\ criteria' = DefaultCriteria
            /\ mode' = mode
            /\ gene_name' = gene_name
            /\ gene_names' = gene_names
            /\ idx' = 0 /\ results' = <<>> /\ failed_queries' = <<>>
            /\ printed' = <<>> /\ invoked' = <<>>
            /\ i' = 0 /\ calls' = <<>> /\ phys' = 0 /\ ret' = None /\ hit' = 0
            /\ pc' = (IF mode = "single" THEN "enter" ELSE "loop")]_vars
    /\ [](pc = "send" =>
            query = BuildSearchQuery(gene_name, Strategies(DefaultCriteria)[i]))
    /\ [](pc \in {"ret", "done"} /\ mode = "single" =>
            ret = (IF hit # 0 THEN ProteinInfo(got) ELSE None))
    /\ [](pc = "done" /\ mode = "batch" =>
            [k \in 1..Len(results) |-> results[k].key] = FirstSeen(Len(gene_names)))

C26_Witness ==
    /\ pc = "done"
    /\ mode = "single"
    /\ gene_name = <<"TP53">>
    /\ hit = 2
    /\ ret # None
    /\ sentQuery = <<"gene_exact:", "TP53", " AND ", "organism_id:", "9606">>

C28_DedupAfterStrip ==
    LET Core(s) == SelectSeq(s, LAMBDA c : c # WS)
        Bare(s) == s # <<>> /\ Head(s) # WS /\ s[Len(s)] # WS
        taken == IF pc \in {"loop", "done"} THEN idx ELSE idx + 1
        symbols == { Core(gene_names[k]) : k \in 1..idx } \ { <<>> }
    IN /\ \A k \in 1..Len(results) : Bare(results[k].key)
       /\ \A k \in 1..Len(invoked) : Bare(invoked[k])
       /\ pc \in {"enter", "send", "ret"} => Bare(gene_name)
       /\ \A k \in 1..idx :
             Core(gene_names[k]) # <<>> =>
                Cardinality({ m \in 1..Len(results) :
                                results[m].key = Core(gene_names[k]) }) = 1
       /\ Len(results) = Cardinality(symbols)
       /\ Len(invoked) =
             Cardinality({ Core(gene_names[k]) : k \in 1..taken } \ { <<>> })

C28_Witness ==
    /\ pc = "done"
    /\ gene_names = << <<"A", WS>>, <<WS, "A">> >>
    /\ invoked = << <<"A">> >>
    /\ Len(results) = 1
    /\ results[1].key = <<"A">>
    /\ results[1].entry # ErrorEntry

\* C29: every entry of the report is either a record with a selection and no
\* error key, or an error entry with no selection; the entry of a gene is the
\* error entry exactly when its resolution returned nothing, that is when no
\* strategy's response carried a candidate; failed_queries holds exactly the
\* symbols whose entry is an error entry, each once.
C29_EntryShapesAndFailureList ==
    LET errored == { k \in 1..Len(results) : "error" \in DOMAIN results[k].entry }
    IN /\ \A k \in 1..Len(results) :
             ("accession" \in DOMAIN results[k].entry) # (k \in errored)
       /\ (pc \in {"loop", "done"} /\ calls # <<>>) =>
             /\ (Entry(results, gene_name) \in errored) = (ret = None)
             /\ (ret = None) = (hit = 0)
       /\ { failed_queries[k] : k \in 1..Len(failed_queries) } =
             { results[k].key : k \in errored }
       /\ Len(failed_queries) = Cardinality(errored)

C29_Witness ==
    /\ pc = "done"
    /\ Len(results) = 2
    /\ "accession" \in DOMAIN results[1].entry
    /\ results[2].entry = ErrorEntry
    /\ failed_queries = << <<"B">> >>
    /\ ~allEmpty

\* C30: fetch_sequence makes at most max_retries physical calls, one for each
\* attempt: a 429 answer or a timeout uses up one attempt, a 404 ends the call
\* at once with nothing, and a call that used up its attempts returned
\* nothing.
C30_FetchCallsWithinAttempts ==
    /\ phys <= fetch_max_retries
    /\ pc = "send" => phys = i
    /\ (pc = "attempt" /\ last.status \in {"s429", "rtimeout", "ctimeout"}) => phys = i
    /\ last.status = "s404" => pc = "done" /\ ret = None
    /\ (pc = "done" /\ i = fetch_max_retries) => ret = None

====
